---- MODULE Spec2Model ----
(***************************************************************************)
(* Model of the MCP command-line client (Client-Server/mcp-client/         *)
(* client.py): the interactive chat_loop and the tool-invocation loop of   *)
(* MCPClient.process_query, with the Session Client (list_tools,           *)
(* call_tool) and the Inference Client (messages.create) as nondeter-      *)
(* ministic collaborators.                                                 *)
(*                                                                         *)
(* Strings are modelled as sequences of tokens, so that concatenation,     *)
(* f-string formatting and "\n".join are computed, not assumed.            *)
(*                                                                         *)
(* The repository's three other programs are modelled after it, each with  *)
(* its own variables and its own specification: the Gemini agent chat loop *)
(* (Sample/gemini-mcp-agent.py, SpecAgent), the socket demo                *)
(* (Sample/simple_mcp_sample.py, SpecSocket) and the weather tool          *)
(* get_forecast (Client-Server/mcp-servers/weather.py, SpecWeather).  In   *)
(* the specification of one program the variables of the others keep the  *)
(* values they have while those programs are not running.                  *)
(***************************************************************************)
EXTENDS Integers, Sequences, FiniteSets, TLC

\* Largest number of content blocks in one completion result.
MaxBlocks == 3

\* Largest number of user inputs the Gemini agent's chat loop is given.
MaxTurns == 3

\* Largest number of lines the socket demo's client sends.
MaxLines == 2

\* client_socket.recv(1024) in handle_client and in mcp_client.
HandlerRecvSize == 1024

ClientRecvSize == 1024

\* -90 <= latitude <= 90 and -180 <= longitude <= 180 in get_forecast.
MaxLatitude == 90

MaxLongitude == 180

\* periods[:7] in get_forecast.
ShownPeriods == 7

(***************************************************************************)
(* Strings and the values the collaborators can produce.                   *)
(***************************************************************************)
NL == "\n"

EmptyStr == <<>>

\* The raw lines the user can type at the prompt; " " is whitespace.
InputLines ==
    { <<"forecast for Boston">>,
      <<" ", "alerts for CA", " ">>,
      <<"quit">>,
      <<" ", "QUIT">>,
      <<"Quit", " ">> }

\* str.strip(): leading and trailing whitespace removed.
RECURSIVE StripLeft(_)
StripLeft(s) == IF s # <<>> /\ s[1] = " " THEN StripLeft(Tail(s)) ELSE s

RECURSIVE StripRight(_)
StripRight(s) ==
    IF s # <<>> /\ s[Len(s)] = " "
    THEN StripRight(SubSeq(s, 1, Len(s) - 1))
    ELSE s

Strip(s) == StripRight(StripLeft(s))

\* str.lower(), token by token.
LowerToken(t) ==
    CASE t = "QUIT" -> "quit"
      [] t = "Quit" -> "quit"
      [] t = "EXIT" -> "exit"
      [] t = "Exit" -> "exit"
      [] t = "forecast for Boston" -> "forecast for boston"
      [] t = "alerts for CA" -> "alerts for ca"
      [] OTHER -> t

Lower(s) == [i \in 1..Len(s) |-> LowerToken(s[i])]

QuitLine == <<"quit">>

\* query.lower() == 'quit'
IsQuit(q) == Lower(q) = QuitLine

\* The queries process_query can be called with (stripped, not the sentinel).
Queries == { Strip(l) : l \in { x \in InputLines : ~IsQuit(Strip(x)) } }

\* The server scripts main can be started with (sys.argv[1]).
ScriptPaths == { <<"weather", ".py">>, <<"index", ".js">>, <<"server", ".txt">> }

\* server_script_path.endswith('.py') / endswith('.js')
EndsWith(path, suffix) == path # <<>> /\ path[Len(path)] = suffix

\* The content blocks the model can emit; a tool_use block gets its id when
\* the completion result is built (every id the endpoint issues is fresh).
TextKinds ==
    { [type |-> "text", text |-> <<"It will be sunny.">>],
      [type |-> "text", text |-> <<"Let me check.">>] }

ToolKinds ==
    { [type |-> "tool_use", name |-> "get_forecast", input |-> "{lat, lon}"],
      [type |-> "tool_use", name |-> "get_alerts", input |-> "{state}"] }

BlockKinds == TextKinds \cup ToolKinds

Shapes == UNION { [1..m -> BlockKinds] : m \in 0..MaxBlocks }

\* The completion result the endpoint returns for the k-th call of a run.
MkResponse(shape, k) ==
    [i \in 1..Len(shape) |->
        IF shape[i].type = "text"
        THEN shape[i]
        ELSE [type |-> "tool_use", id |-> <<k, i>>,
              name |-> shape[i].name, input |-> shape[i].input]]

\* What session.call_tool can return: a result with content, a result with
\* no content, and a result flagged isError by the server.
ToolOutcomes ==
    { [content |-> <<"Sunny, 70F">>, isError |-> FALSE],
      [content |-> EmptyStr, isError |-> FALSE],
      [content |-> <<"timeout">>, isError |-> TRUE] }

\* The messages of the exceptions call_tool can raise.
ToolErrors == { <<"timeout">> }

(***************************************************************************)
(* Pure helpers of process_query.                                          *)
(***************************************************************************)
StrContent(s) == [kind |-> "str", str |-> s]

BlockContent(bs) == [kind |-> "blocks", blocks |-> bs]

\* Variant of InitialMessages: the list opens with a system-role message
\* placed before the user query.
InitialMessages_WithSystem(q) ==
    << [role |-> "system", content |-> StrContent(<<"You are an assistant">>)],
       [role |-> "user", content |-> StrContent(q)] >>

\* messages = [{"role": "user", "content": query}]
InitialMessages(q) == << [role |-> "user", content |-> StrContent(q)] >>

\* Index of the first tool_use block of a content list, 0 when there is none:
\* the for loop leaves at the first tool_use (break).
RECURSIVE FirstToolUseFrom(_, _)
FirstToolUseFrom(content, i) ==
    IF i > Len(content) THEN 0
    ELSE IF content[i].type = "tool_use" THEN i
    ELSE FirstToolUseFrom(content, i + 1)

FirstToolUse(content) == FirstToolUseFrom(content, 1)

\* f"[Calling tool {tool_name} with args {tool_args}]"
CallingLine(block) ==
    <<"[Calling tool ", block.name, " with args ", block.input, "]">>

\* f"Error calling tool {tool_name}: {str(e)}"
ErrorLine(name, msg) == <<"Error calling tool ", name, ": ">> \o msg

\* The texts the for loop appends to final_text for blocks 1..n of content.
RECURSIVE ScanTexts(_, _)
ScanTexts(content, n) ==
    IF n = 0 THEN <<>>
    ELSE LET b == content[n]
         IN  ScanTexts(content, n - 1) \o
             (IF b.type = "text" THEN <<b.text>>
              ELSE IF b.type = "tool_use" THEN <<CallingLine(b)>>
              ELSE <<>>)

\* final_text after the for loop has run over a completion result: every
\* block up to and including the first tool_use, or all of them.
FinalTextAfterScan(content) ==
    LET t == FirstToolUse(content)
    IN  ScanTexts(content, IF t = 0 THEN Len(content) ELSE t)

\* Variant of JoinLines: joins with the empty separator, "".join(final_text).
JoinLines_NoSeparator(ss) ==
    LET F[i \in 0..Len(ss)] == IF i = 0 THEN EmptyStr ELSE F[i - 1] \o ss[i]
    IN  F[Len(ss)]

\* "\n".join(final_text)
RECURSIVE JoinLines(_)
JoinLines(ss) ==
    IF ss = <<>> THEN EmptyStr
    ELSE IF Len(ss) = 1 THEN ss[1]
    ELSE ss[1] \o <<NL>> \o JoinLines(Tail(ss))

\* tool_result = result.content if result and result.content else ""
ToolResultOf(outcome) ==
    IF outcome.content # EmptyStr THEN outcome.content ELSE EmptyStr

\* The tool_result block of the follow-up user message.
ToolResultBlock(id, tool_result) ==
    [type |-> "tool_result", tool_use_id |-> id, content |-> tool_result]

\* Variant of AppendToolExchange: the assistant message with the tool use is
\* not appended, only the tool result.
AppendToolExchange_ResultOnly(msgs, content, id, tool_result) ==
    Append(msgs,
           [role |-> "user",
            content |-> BlockContent(<<ToolResultBlock(id, tool_result)>>)])

\* Variant of AppendToolExchange: the two messages are appended in the
\* opposite order, the tool result first.
AppendToolExchange_ResultFirst(msgs, content, id, tool_result) ==
    msgs \o
    << [role |-> "user",
        content |-> BlockContent(<<ToolResultBlock(id, tool_result)>>)],
       [role |-> "assistant", content |-> BlockContent(content)] >>

\* messages after the assistant message with the tool use and the user
\* message with the tool result have been appended.
AppendToolExchange(msgs, content, id, tool_result) ==
    msgs \o
    << [role |-> "assistant", content |-> BlockContent(content)],
       [role |-> "user",
        content |-> BlockContent(<<ToolResultBlock(id, tool_result)>>)] >>

\* Variant of FinalContent: a result without a leading text block gives a
\* placeholder text instead of the empty string.
FinalContent_Placeholder(content) ==
    IF Len(content) > 0 /\ content[1].type = "text"
    THEN content[1].text
    ELSE <<"(no response)">>

\* response.content[0].text if response.content and ... hasattr(.., 'text')
FinalContent(content) ==
    IF Len(content) > 0 /\ content[1].type = "text"
    THEN content[1].text
    ELSE EmptyStr

\* Variant of AppendFinal: the closing assistant message overwrites the last
\* message (messages[-1] = ...) instead of being appended.
AppendFinal_Overwrites(msgs, content) ==
    Append(SubSeq(msgs, 1, Len(msgs) - 1),
           [role |-> "assistant",
            content |-> StrContent(FinalContent(content))])

\* messages after the closing assistant message has been appended.
AppendFinal(msgs, content) ==
    Append(msgs, [role |-> "assistant",
                  content |-> StrContent(FinalContent(content))])

(***************************************************************************)
(* State.                                                                  *)
(***************************************************************************)
VARIABLES
    pc,            \* where chat_loop / process_query stands
    query,         \* the line being processed
    messages,      \* process_query's local message list
    response,      \* content of the completion result `response` is bound to
    final_text,    \* process_query's local list of output lines
    answer,        \* the string process_query returned
    error,         \* the exception that left process_query, "" when none
    completions,   \* completion results obtained in the current run, in order
    completeCalls, \* number of messages.create calls issued in the current run
    toolCalls,     \* call_tool invocations of the current run, in order
    lastArgs,      \* message list passed to the last messages.create
    argsRelation,  \* how that list relates to the one of the call before it
    line,          \* the raw line input() returned last
    printed,       \* what chat_loop printed since that line was read
    exit_stack,    \* contexts entered on client.exit_stack, in order
    cleanups,      \* number of client.cleanup() calls
    exitReason     \* why main left its try block, "" while inside it

\* Sample/gemini-mcp-agent.py
VARIABLES
    agentPc,       \* where main's chat loop stands
    inputs,        \* inputs["messages"]
    state,         \* state["messages"] of the state the stream yielded last
    agentPrinted   \* the messages pretty_print showed in the last turn

\* Sample/simple_mcp_sample.py
VARIABLES
    clientPc,      \* where mcp_client stands
    handlerPc,     \* where handle_client stands
    c2s,           \* bytes sent by the client the handler has not received
    s2c,           \* bytes sent by the handler the client has not received
    shown,         \* the response mcp_client printed last
    linesSent,     \* number of send calls mcp_client made
    responsesSent  \* number of send calls handle_client made

\* Client-Server/mcp-servers/weather.py
VARIABLES
    wxPc,          \* where get_forecast stands
    latitude,      \* its arguments
    longitude,
    requests,      \* URLs make_nws_request was called with in this call
    points_data,   \* what the points request returned
    result         \* how the call ended and the string it returned

clientVars == <<pc, query, messages, response, final_text, answer, error,
                completions, completeCalls, toolCalls, lastArgs, argsRelation,
                line, printed, exit_stack, cleanups, exitReason>>

agentVars == <<agentPc, inputs, state, agentPrinted>>

socketVars == <<clientPc, handlerPc, c2s, s2c, shown, linesSent,
                responsesSent>>

weatherVars == <<wxPc, latitude, longitude, requests, points_data, result>>

vars == <<clientVars, agentVars, socketVars, weatherVars>>

\* The programs other than the command-line client.
otherPrograms == <<agentVars, socketVars, weatherVars>>

\* The state of main and of the MCPClient object.
sessionVars == <<exit_stack, cleanups, exitReason>>

\* The state of the interactive shell.
shellVars == <<line, printed>>

\* The Gemini agent is not running.
AgentOff ==
    /\ agentPc = "off"
    /\ inputs = <<>>
    /\ state = <<>>
    /\ agentPrinted = <<>>

\* Neither side of the socket demo is running.
SocketOff ==
    /\ clientPc = "off"
    /\ handlerPc = "off"
    /\ c2s = <<>>
    /\ s2c = <<>>
    /\ shown = <<>>
    /\ linesSent = 0
    /\ responsesSent = 0

\* The value of a name that is not bound, and Python's None.
None == [shape |-> "none"]

\* The weather tool is not running.
WeatherOff ==
    /\ wxPc = "off"
    /\ latitude = 0
    /\ longitude = 0
    /\ requests = <<>>
    /\ points_data = None
    /\ result = [kind |-> "none", text |-> <<>>]

\* The command-line client is not running.
ClientOff ==
    /\ pc = "off"
    /\ line = EmptyStr
    /\ printed = <<>>
    /\ exit_stack = <<>>
    /\ cleanups = 0
    /\ exitReason = ""
    /\ query = EmptyStr
    /\ messages = <<>>
    /\ response = <<>>
    /\ final_text = <<>>
    /\ answer = EmptyStr
    /\ error = ""
    /\ completions = <<>>
    /\ completeCalls = 0
    /\ toolCalls = <<>>
    /\ lastArgs = <<>>
    /\ argsRelation = "first"

Init ==
    /\ AgentOff
    /\ SocketOff
    /\ WeatherOff
    /\ pc = "main"
    /\ line = EmptyStr
    /\ printed = <<>>
    /\ exit_stack = <<>>
    /\ cleanups = 0
    /\ exitReason = ""
    /\ query = EmptyStr
    /\ messages = <<>>
    /\ response = <<>>
    /\ final_text = <<>>
    /\ answer = EmptyStr
    /\ error = ""
    /\ completions = <<>>
    /\ completeCalls = 0
    /\ toolCalls = <<>>
    /\ lastArgs = <<>>
    /\ argsRelation = "first"

\* s is an initial part of t.
IsPrefix(s, t) == Len(s) <= Len(t) /\ SubSeq(t, 1, Len(s)) = s

\* How the message list of a messages.create call relates to the list the
\* session's previous call received: there was none, it is extended by the
\* new list, or the new list does not start with it.
ArgsRelation(earlier, later) ==
    IF earlier = <<>> THEN "first"
    ELSE IF IsPrefix(earlier, later) THEN "extends"
    ELSE "unrelated"

\* self.anthropic.messages.create(messages=msgs, ...) is called: the
\* endpoint sees msgs.
CreateCalled(msgs) ==
    /\ completeCalls' = completeCalls + 1
    /\ lastArgs' = msgs
    /\ argsRelation' = ArgsRelation(lastArgs, msgs)

(***************************************************************************)
(* main, connect_to_server, cleanup                                        *)
(***************************************************************************)
processVars == <<query, messages, response, final_text, answer, error,
                 completions, completeCalls, toolCalls, lastArgs,
                 argsRelation, line, printed>>

\* len(sys.argv) < 2: usage is printed and main returns; no client exists.
MainUsage ==
    /\ UNCHANGED otherPrograms
    /\ pc = "main"
    /\ pc' = "exited"
    /\ exitReason' = "usage"
    /\ UNCHANGED <<processVars, exit_stack, cleanups>>

\* client = MCPClient(); connect_to_server checks the script's suffix and
\* suspends on entering stdio_client, or raises ValueError.
MainStart ==
    /\ UNCHANGED otherPrograms
    /\ pc = "main"
    /\ \E path \in ScriptPaths :
        IF EndsWith(path, ".py") \/ EndsWith(path, ".js")
        THEN /\ pc' = "enter_stdio"
             /\ exitReason' = ""
        ELSE /\ pc' = "cleanup"
             /\ exitReason' = "connect failed"
    /\ UNCHANGED <<processVars, exit_stack, cleanups>>

ConnectPoints ==
    {"enter_stdio", "enter_session", "initialize", "connect_list_tools"}

\* The awaited step of connect_to_server succeeds; after the last one
\* chat_loop starts and blocks in input().
ConnectAdvance ==
    /\ UNCHANGED otherPrograms
    /\ pc \in ConnectPoints
    /\ pc' = CASE pc = "enter_stdio" -> "enter_session"
               [] pc = "enter_session" -> "initialize"
               [] pc = "initialize" -> "connect_list_tools"
               [] pc = "connect_list_tools" -> "input"
    /\ exit_stack' =
          CASE pc = "enter_stdio" -> Append(exit_stack, "stdio_client")
            [] pc = "enter_session" -> Append(exit_stack, "ClientSession")
            [] OTHER -> exit_stack
    /\ UNCHANGED <<processVars, cleanups, exitReason>>

\* The awaited step of connect_to_server raises: main's finally runs.
ConnectFail ==
    /\ UNCHANGED otherPrograms
    /\ pc \in ConnectPoints
    /\ pc' = "cleanup"
    /\ exitReason' = "connect failed"
    /\ UNCHANGED <<processVars, exit_stack, cleanups>>

\* The places where the program waits on a collaborator or on the user.
RunPoints == {"list_tools", "complete1", "call_tool", "complete2"}

\* Variant of Interrupt: cleanup() follows the try statement instead of
\* standing in its finally clause, so an interrupt skips it.
Interrupt_SkipsCleanup ==
    /\ UNCHANGED otherPrograms
    /\ pc \in ConnectPoints \cup RunPoints
    /\ pc' = "exited"
    /\ exitReason' = "interrupted"
    /\ UNCHANGED <<processVars, exit_stack, cleanups>>

\* KeyboardInterrupt / CancelledError (no Exception) is raised while waiting
\* in connect_to_server or process_query: it passes chat_loop's handler and
\* main's finally runs.
Interrupt ==
    /\ UNCHANGED otherPrograms
    /\ pc \in ConnectPoints \cup RunPoints
    /\ pc' = "cleanup"
    /\ exitReason' = "interrupted"
    /\ UNCHANGED <<processVars, exit_stack, cleanups>>

\* finally: await client.cleanup(): self.exit_stack.aclose()
Cleanup ==
    /\ UNCHANGED otherPrograms
    /\ pc = "cleanup"
    /\ pc' = "exited"
    /\ exit_stack' = <<>>
    /\ cleanups' = cleanups + 1
    /\ messages' = <<>>
    /\ response' = <<>>
    /\ final_text' = <<>>
    /\ answer' = EmptyStr
    /\ error' = ""
    /\ completions' = <<>>
    /\ completeCalls' = 0
    /\ toolCalls' = <<>>
    /\ UNCHANGED <<query, lastArgs, argsRelation, line, printed, exitReason>>

(***************************************************************************)
(* chat_loop                                                               *)
(***************************************************************************)
\* Every way of leaving input() starts a new iteration of the loop: the
\* records of the previous run are dropped.
NewIteration ==
    /\ response' = <<>>
    /\ final_text' = <<>>
    /\ answer' = EmptyStr
    /\ completions' = <<>>
    /\ completeCalls' = 0
    /\ toolCalls' = <<>>
    /\ printed' = <<>>
    /\ UNCHANGED <<lastArgs, argsRelation>>

\* query = input(...).strip(); not 'quit': process_query starts, builds
\* messages and suspends on session.list_tools().
ReadQuery ==
    /\ UNCHANGED otherPrograms
    /\ pc = "input"
    /\ \E l \in InputLines :
        /\ ~IsQuit(Strip(l))
        /\ line' = l
        /\ query' = Strip(l)
        /\ messages' = InitialMessages(Strip(l))
    /\ pc' = "list_tools"
    /\ error' = ""
    /\ NewIteration
    /\ UNCHANGED sessionVars

\* query.lower() == 'quit': break; chat_loop returns into main's finally.
ReadQuit ==
    /\ UNCHANGED otherPrograms
    /\ pc = "input"
    /\ \E l \in InputLines :
        /\ IsQuit(Strip(l))
        /\ line' = l
        /\ query' = Strip(l)
    /\ pc' = "cleanup"
    /\ exitReason' = "quit"
    /\ error' = ""
    /\ NewIteration
    /\ UNCHANGED <<messages, exit_stack, cleanups>>

\* input() raises EOFError (stdin closed): except Exception catches it.
InputFails ==
    /\ UNCHANGED otherPrograms
    /\ pc = "input"
    /\ pc' = "raised"
    /\ error' = "EOF when reading a line"
    /\ NewIteration
    /\ UNCHANGED <<query, messages, line, sessionVars>>

\* The interrupt arrives while chat_loop blocks in input().
InterruptInput ==
    /\ UNCHANGED otherPrograms
    /\ pc = "input"
    /\ pc' = "cleanup"
    /\ exitReason' = "interrupted"
    /\ error' = ""
    /\ NewIteration
    /\ UNCHANGED <<query, messages, line, exit_stack, cleanups>>

\* print("\n" + response): process_query has returned, its locals are gone.
PrintResponse ==
    /\ UNCHANGED otherPrograms
    /\ pc = "returned"
    /\ pc' = "input"
    /\ printed' = Append(printed, [kind |-> "response", text |-> answer])
    /\ messages' = <<>>
    /\ response' = <<>>
    /\ final_text' = <<>>
    /\ UNCHANGED <<query, answer, error, completions, completeCalls,
                   toolCalls, lastArgs, argsRelation, line, sessionVars>>

\* Variant of PrintError: the handler prints the error and leaves the loop
\* (break), so the session ends with the failed query.
PrintError_Breaks ==
    /\ UNCHANGED otherPrograms
    /\ pc = "raised"
    /\ pc' = "cleanup"
    /\ exitReason' = "quit"
    /\ printed' = Append(printed, [kind |-> "error", text |-> error])
    /\ messages' = <<>>
    /\ response' = <<>>
    /\ final_text' = <<>>
    /\ UNCHANGED <<query, answer, error, completions, completeCalls,
                   toolCalls, lastArgs, argsRelation, line, exit_stack,
                   cleanups>>

\* except Exception as e: print(f"\nError: {str(e)}")
PrintError ==
    /\ UNCHANGED otherPrograms
    /\ pc = "raised"
    /\ pc' = "input"
    /\ printed' = Append(printed, [kind |-> "error", text |-> error])
    /\ messages' = <<>>
    /\ response' = <<>>
    /\ final_text' = <<>>
    /\ UNCHANGED <<query, answer, error, completions, completeCalls,
                   toolCalls, lastArgs, argsRelation, line, sessionVars>>

(***************************************************************************)
(* process_query                                                           *)
(***************************************************************************)
\* response = await self.session.list_tools() returns the catalog.
ListToolsOk ==
    /\ UNCHANGED otherPrograms
    /\ pc = "list_tools"
    /\ UNCHANGED <<sessionVars, shellVars>>
    /\ pc' = "complete1"
    /\ UNCHANGED <<query, messages, response, final_text, answer, error,
                   completions, completeCalls, toolCalls, lastArgs, argsRelation>>

\* list_tools raises: the exception leaves process_query.
ListToolsFail ==
    /\ UNCHANGED otherPrograms
    /\ pc = "list_tools"
    /\ UNCHANGED <<sessionVars, shellVars>>
    /\ pc' = "raised"
    /\ error' = "list_tools failed"
    /\ UNCHANGED <<query, messages, response, final_text, answer,
                   completions, completeCalls, toolCalls, lastArgs, argsRelation>>

\* Variant of AfterFirstCompletion: the assistant message with the tool use
\* is appended before call_tool is awaited.
AfterFirstCompletion_AppendsFirst(content) ==
    LET t == FirstToolUse(content)
        ft == FinalTextAfterScan(content)
    IN  /\ response' = content
        /\ final_text' = ft
        /\ IF t = 0
           THEN /\ messages' = AppendFinal(messages, content)
                /\ answer' = JoinLines(ft)
                /\ pc' = "returned"
           ELSE /\ messages' = Append(messages,
                       [role |-> "assistant", content |-> BlockContent(content)])
                /\ answer' = answer
                /\ pc' = "call_tool"

\* The rest of process_query once `response` is bound to a completion result
\* with no tool_use block: the for loop collects the texts, the closing
\* assistant message is appended and "\n".join(final_text) is returned.
\* With a tool_use block: the loop runs up to it and suspends on call_tool.
AfterFirstCompletion(content) ==
    LET t == FirstToolUse(content)
        ft == FinalTextAfterScan(content)
    IN  /\ response' = content
        /\ final_text' = ft
        /\ IF t = 0
           THEN /\ messages' = AppendFinal(messages, content)
                /\ answer' = JoinLines(ft)
                /\ pc' = "returned"
           ELSE /\ messages' = messages
                /\ answer' = answer
                /\ pc' = "call_tool"

\* Initial Claude API call: self.anthropic.messages.create(messages=messages)
Complete1Ok ==
    /\ UNCHANGED otherPrograms
    /\ pc = "complete1"
    /\ UNCHANGED <<sessionVars, shellVars>>
    /\ \E shape \in Shapes :
        LET content == MkResponse(shape, 1)
        IN  /\ completions' = Append(completions, content)
            /\ AfterFirstCompletion(content)
    /\ CreateCalled(messages)
    /\ UNCHANGED <<query, error, toolCalls>>

\* The initial call raises: the exception leaves process_query.
Complete1Fail ==
    /\ UNCHANGED otherPrograms
    /\ pc = "complete1"
    /\ UNCHANGED <<sessionVars, shellVars>>
    /\ pc' = "raised"
    /\ error' = "messages.create failed"
    /\ CreateCalled(messages)
    /\ UNCHANGED <<query, messages, response, final_text, answer,
                   completions, toolCalls>>

\* The tool_use block the for loop stopped at.
CurrentToolUse == response[FirstToolUse(response)]

\* After call_tool: both messages are appended and the loop suspends on the
\* second messages.create.
AfterToolCall(block, tool_result, raised) ==
    /\ final_text' = IF raised THEN Append(final_text, tool_result)
                     ELSE final_text
    /\ messages' = AppendToolExchange(messages, response, block.id, tool_result)
    /\ pc' = "complete2"

\* result = await self.session.call_tool(tool_name, tool_args) returns.
CallToolReturns ==
    /\ UNCHANGED otherPrograms
    /\ pc = "call_tool"
    /\ UNCHANGED <<sessionVars, shellVars>>
    /\ \E outcome \in ToolOutcomes :
        /\ toolCalls' = Append(toolCalls,
               [id |-> CurrentToolUse.id, name |-> CurrentToolUse.name,
                raised |-> FALSE, outcome |-> outcome])
        /\ AfterToolCall(CurrentToolUse, ToolResultOf(outcome), FALSE)
    /\ UNCHANGED <<query, response, answer, error, completions,
                   completeCalls, lastArgs, argsRelation>>

\* call_tool raises: except Exception as e builds the error text.
CallToolRaises ==
    /\ UNCHANGED otherPrograms
    /\ pc = "call_tool"
    /\ UNCHANGED <<sessionVars, shellVars>>
    /\ \E msg \in ToolErrors :
        /\ toolCalls' = Append(toolCalls,
               [id |-> CurrentToolUse.id, name |-> CurrentToolUse.name,
                raised |-> TRUE,
                outcome |-> [content |-> msg, isError |-> TRUE]])
        /\ AfterToolCall(CurrentToolUse,
                         ErrorLine(CurrentToolUse.name, msg), TRUE)
    /\ UNCHANGED <<query, response, answer, error, completions,
                   completeCalls, lastArgs, argsRelation>>

\* Variant of AfterSecondCompletion: the while loop goes round again when
\* the new response holds a tool_use block.
AfterSecondCompletion_Loops(content) ==
    /\ response' = content
    /\ IF FirstToolUse(content) # 0
       THEN /\ messages' = messages
            /\ answer' = answer
            /\ pc' = "call_tool"
       ELSE /\ messages' = AppendFinal(messages, content)
            /\ answer' = JoinLines(final_text)
            /\ pc' = "returned"

\* After the second completion: break leaves the for loop, the closing
\* assistant message is built from the new response, the while loop is left
\* and "\n".join(final_text) is returned.
AfterSecondCompletion(content) ==
    /\ response' = content
    /\ messages' = AppendFinal(messages, content)
    /\ answer' = JoinLines(final_text)
    /\ pc' = "returned"

\* Get next response from Claude after tool call.
Complete2Ok ==
    /\ UNCHANGED otherPrograms
    /\ pc = "complete2"
    /\ UNCHANGED <<sessionVars, shellVars>>
    /\ \E shape \in Shapes :
        LET content == MkResponse(shape, 2)
        IN  /\ completions' = Append(completions, content)
            /\ AfterSecondCompletion(content)
    /\ CreateCalled(messages)
    /\ UNCHANGED <<query, final_text, error, toolCalls>>

\* Variant of Complete2Fail: the second call sits inside a try block whose
\* handler swallows the failure, so the run goes on to its normal end.
Complete2Fail_Swallowed ==
    /\ UNCHANGED otherPrograms
    /\ pc = "complete2"
    /\ UNCHANGED <<sessionVars, shellVars>>
    /\ pc' = "returned"
    /\ messages' = AppendFinal(messages, <<>>)
    /\ answer' = JoinLines(final_text)
    /\ CreateCalled(messages)
    /\ UNCHANGED <<query, response, final_text, error, completions, toolCalls>>

\* The second call raises outside the try block: it leaves process_query.
Complete2Fail ==
    /\ UNCHANGED otherPrograms
    /\ pc = "complete2"
    /\ UNCHANGED <<sessionVars, shellVars>>
    /\ pc' = "raised"
    /\ error' = "messages.create failed"
    /\ CreateCalled(messages)
    /\ UNCHANGED <<query, messages, response, final_text, answer,
                   completions, toolCalls>>

Next ==
    \/ MainUsage
    \/ MainStart
    \/ ConnectAdvance
    \/ ConnectFail
    \/ Interrupt
    \/ Cleanup
    \/ ReadQuery
    \/ ReadQuit
    \/ InputFails
    \/ InterruptInput
    \/ PrintResponse
    \/ PrintError
    \/ ListToolsOk
    \/ ListToolsFail
    \/ Complete1Ok
    \/ Complete1Fail
    \/ CallToolReturns
    \/ CallToolRaises
    \/ Complete2Ok
    \/ Complete2Fail

Spec == Init /\ [][Next]_vars

(***************************************************************************)
(* Vocabulary of the properties.                                           *)
(***************************************************************************)
RECURSIVE Flatten(_)
Flatten(ss) == IF ss = <<>> THEN <<>> ELSE ss[1] \o Flatten(Tail(ss))

\* The blocks of a content list that have the given type, in order.
BlocksOfType(content, ty) == SelectSeq(content, LAMBDA b : b.type = ty)

\* The text values of the Text blocks of a content list, in order.
TextsOf(content) ==
    LET bs == BlocksOfType(content, "text")
    IN  [i \in 1..Len(bs) |-> bs[i].text]

\* The ids of the ToolUse blocks of a content list, in order.
ToolUseIdsOf(content) ==
    LET bs == BlocksOfType(content, "tool_use")
    IN  [i \in 1..Len(bs) |-> bs[i].id]

HasToolUse(content) == FirstToolUseFrom(content, 1) # 0

\* The blocks of a message (a plain-string content holds no block).
BlocksOfMessage(m) ==
    IF m.content.kind = "blocks" THEN m.content.blocks ELSE <<>>

\* Ids of the ToolUse blocks of the Assistant messages of a conversation.
ConversationToolUseIds(msgs) ==
    Flatten([i \in 1..Len(msgs) |->
        IF msgs[i].role = "assistant"
        THEN ToolUseIdsOf(BlocksOfMessage(msgs[i])) ELSE <<>>])

\* toolUseIds of all ToolResult blocks of a conversation.
ConversationToolResultIds(msgs) ==
    Flatten([i \in 1..Len(msgs) |->
        LET bs == BlocksOfType(BlocksOfMessage(msgs[i]), "tool_result")
        IN  [j \in 1..Len(bs) |-> bs[j].tool_use_id]])

Range(s) == { s[i] : i \in 1..Len(s) }

Occurrences(s, x) == Cardinality({ i \in 1..Len(s) : s[i] = x })

\* Every Text block of every completion result of the run, in emission order.
AllTexts == Flatten([k \in 1..Len(completions) |-> TextsOf(completions[k])])

\* Plain concatenation of strings.
Concatenation(ss) == Flatten(ss)

\* The strings of ss with one newline between consecutive ones.
RECURSIVE NewlineSeparated(_)
NewlineSeparated(ss) ==
    IF Len(ss) = 0 THEN <<>>
    ELSE IF Len(ss) = 1 THEN ss[1]
    ELSE NewlineSeparated(SubSeq(ss, 1, Len(ss) - 1)) \o <<"\n">> \o ss[Len(ss)]

\* The isError flag of a ToolResult block (absent means false).
IsErrorFlag(block) ==
    IF "is_error" \in DOMAIN block THEN block.is_error ELSE FALSE

\* A call_tool invocation that failed: it raised or returned isError=true.
CallFailed(call) == call.raised \/ call.outcome.isError

RunDone == pc = "returned"

\* A messages.create call is about to be issued or the run has ended.
AtSecondCompleteOrDone == pc = "complete2" \/ pc = "returned"

(***************************************************************************)
(* C1: in every run that ends without error, the returned answer is the    *)
(* concatenation, in emission order, of every Text block of every          *)
(* completion result of the run, the one obtained after a tool was         *)
(* executed included.  Stated for the runs the claim singles out: a tool   *)
(* was executed and the completion result obtained after it holds text     *)
(* (runs without a tool call are the subject of C6).                       *)
(***************************************************************************)
C1_AnswerIsAllText ==
    (RunDone /\ toolCalls # <<>> /\ TextsOf(completions[2]) # <<>>) =>
        answer = Concatenation(AllTexts)

(***************************************************************************)
(* C2: every completion result that contains a ToolUse block is followed   *)
(* by the execution of its tools and a new complete() call; a run reaches  *)
(* Done only on a completion result without ToolUse block.                 *)
(***************************************************************************)
C2_DoneOnlyWithoutToolUse ==
    RunDone =>
        /\ ~HasToolUse(completions[Len(completions)])
        /\ \A k \in 1..Len(completions) :
              HasToolUse(completions[k]) =>
                 /\ k < Len(completions)
                 /\ Range(ToolUseIdsOf(completions[k])) \subseteq
                       { toolCalls[i].id : i \in 1..Len(toolCalls) }

(***************************************************************************)
(* C3: matching invariant. At every complete() call after the first and at *)
(* the end of every run, each ToolUse id of an Assistant message is        *)
(* answered by exactly one ToolResult with that id, and every ToolResult   *)
(* id is the id of a ToolUse.                                              *)
(***************************************************************************)
C3_Matching ==
    AtSecondCompleteOrDone =>
        LET uses == ConversationToolUseIds(messages)
            results == ConversationToolResultIds(messages)
        IN  /\ \A id \in Range(uses) : Occurrences(results, id) = 1
            /\ Range(results) \subseteq Range(uses)

(***************************************************************************)
(* C4: non-fatal tool failure. When callTool fails for one of the N tools  *)
(* requested in one completion result, the other N-1 tools are still       *)
(* called and each has a ToolResult in the conversation when the run is    *)
(* Done.                                                                   *)
(***************************************************************************)
C4_OtherToolsStillRun ==
    (RunDone /\ \E i \in 1..Len(toolCalls) : CallFailed(toolCalls[i])) =>
        \A id \in Range(ToolUseIdsOf(completions[1])) :
            /\ id \in { toolCalls[i].id : i \in 1..Len(toolCalls) }
            /\ id \in Range(ConversationToolResultIds(messages))

(***************************************************************************)
(* C5: ordering property. The User message that follows an Assistant       *)
(* message with ToolUse blocks holds one ToolResult per request, in the    *)
(* order of the requests.                                                  *)
(***************************************************************************)
C5_ResultsInRequestOrder ==
    AtSecondCompleteOrDone =>
        \A i \in 1..(Len(messages) - 1) :
            (messages[i].role = "assistant"
             /\ HasToolUse(BlocksOfMessage(messages[i]))) =>
                ConversationToolResultIds(<<messages[i + 1]>>) =
                    ToolUseIdsOf(BlocksOfMessage(messages[i]))

(***************************************************************************)
(* C6 as stated: when the first completion result has no ToolUse block,    *)
(* the run makes exactly one complete() call and no callTool call, and the *)
(* returned text is the concatenation of the result's Text blocks.         *)
(***************************************************************************)
FirstResultHasNoToolUse ==
    RunDone /\ ~HasToolUse(completions[1])

C6_AnswerIsConcatenation ==
    FirstResultHasNoToolUse =>
        /\ completeCalls = 1
        /\ toolCalls = <<>>
        /\ answer = Concatenation(TextsOf(completions[1]))

(***************************************************************************)
(* C6 amended: under the same condition there is exactly one complete()    *)
(* call and no callTool call, and the returned text is the result's Text   *)
(* blocks, in order, joined with one newline between consecutive blocks.   *)
(***************************************************************************)
C6_AnswerIsNewlineJoined ==
    FirstResultHasNoToolUse =>
        /\ completeCalls = 1
        /\ toolCalls = <<>>
        /\ answer = NewlineSeparated(TextsOf(completions[1]))

\* A run that ended on a first result with two Text blocks and no ToolUse.
C6_Witness ==
    /\ FirstResultHasNoToolUse
    /\ Len(TextsOf(completions[1])) >= 2
    /\ answer # Concatenation(TextsOf(completions[1]))

(***************************************************************************)
(* C7: a failed tool call (callTool raised, or returned isError=true) is   *)
(* recorded as a ToolResult with the ToolUse's id, isError=true and        *)
(* content "Error calling tool " + name + ": " + message; a successful one *)
(* with the outcome's content and isError=false.                           *)
(***************************************************************************)
C7_ToolResultRecordsOutcome ==
    (AtSecondCompleteOrDone /\ toolCalls # <<>>) =>
        LET call == toolCalls[1]
            block == BlocksOfMessage(messages[3])[1]
        IN  /\ block.type = "tool_result"
            /\ block.tool_use_id = call.id
            /\ IF CallFailed(call)
               THEN /\ IsErrorFlag(block)
                    /\ block.content =
                          <<"Error calling tool ", call.name, ": ">>
                              \o call.outcome.content
               ELSE /\ ~IsErrorFlag(block)
                    /\ block.content = call.outcome.content

(***************************************************************************)
(* C8: in a run where completion 1 is a single ToolUse, the tool call      *)
(* succeeds and completion 2 is text only, the conversation ends with      *)
(* exactly 4 messages: User query, Assistant message with the ToolUse,     *)
(* User message with the matching ToolResult, final Assistant message.     *)
(***************************************************************************)
SingleToolScenario ==
    /\ RunDone
    /\ Len(completions) = 2
    /\ Len(completions[1]) = 1
    /\ completions[1][1].type = "tool_use"
    /\ Len(toolCalls) = 1
    /\ ~CallFailed(toolCalls[1])
    /\ Len(completions[2]) >= 1
    /\ \A i \in 1..Len(completions[2]) : completions[2][i].type = "text"

C8_FourMessages ==
    SingleToolScenario =>
        /\ Len(messages) = 4
        /\ messages[1] = [role |-> "user",
                          content |-> [kind |-> "str", str |-> query]]
        /\ messages[2].role = "assistant"
        /\ BlocksOfMessage(messages[2]) = completions[1]
        /\ messages[3].role = "user"
        /\ ConversationToolResultIds(<<messages[3]>>) =
              <<completions[1][1].id>>
        /\ messages[4].role = "assistant"
        /\ BlocksOfType(BlocksOfMessage(messages[4]), "tool_use") = <<>>

C8_Witness == SingleToolScenario /\ Len(messages) = 4

(***************************************************************************)
(* C9: when a complete() call fails (first or later call of a run) the run *)
(* is aborted: the failure leaves process_query, no message is appended    *)
(* after the failing call, and no further complete() or callTool call is   *)
(* made for that query.                                                    *)
(***************************************************************************)
\* The step is a complete() call that produced no completion result.
CompleteFailsInStep ==
    /\ completeCalls' = completeCalls + 1
    /\ completions' = completions

C9_CompleteFailureAborts ==
    [][ /\ CompleteFailsInStep =>
              /\ pc' = "raised"
              /\ error' = "messages.create failed"
              /\ messages' = messages
              /\ messages' = lastArgs'
              /\ toolCalls' = toolCalls
        /\ pc = "raised" =>
              /\ pc' = "input"
              /\ completeCalls' = completeCalls
              /\ toolCalls' = toolCalls
              /\ lastArgs' = lastArgs ]_vars

\* The second complete() call of a run has failed.
C9_Witness ==
    /\ pc = "raised"
    /\ error = "messages.create failed"
    /\ completeCalls = 2
    /\ Len(messages) = 3

RunInProgress == pc \in {"list_tools", "complete1", "call_tool", "complete2"}

Contains(s, sub) ==
    \E k \in 0..(Len(s) - Len(sub)) : SubSeq(s, k + 1, k + Len(sub)) = sub

C11_ToolErrorNotInAnswer ==
    RunDone =>
        \A i \in 1..Len(toolCalls) :
            CallFailed(toolCalls[i]) =>
                ~Contains(answer, toolCalls[i].outcome.content)

(***************************************************************************)
(* C12: a fatal error raised while processing one query is reported once   *)
(* for that query and does not end the session: chat_loop goes back to the *)
(* prompt, where the next query can be read and processed.  The loop is    *)
(* left (other than by an interrupt) only when the line read is the quit   *)
(* sentinel in any letter case with surrounding whitespace, every such     *)
(* line leaves it, and no inference or tool call is made for it.           *)
(***************************************************************************)
\* l is the word quit in some letter case between optional whitespace.
SentinelLine(l) ==
    \E i \in 1..Len(l) :
        /\ l[i] \in {"quit", "Quit", "QUIT"}
        /\ \A j \in 1..Len(l) : j # i => l[j] = " "

ChatLoopPoints == {"input", "returned", "raised"} \cup RunPoints

C12_ErrorDoesNotEndSession ==
    [][ /\ pc = "raised" =>
              /\ pc' = "input"
              /\ exitReason' = ""
              /\ printed' = <<[kind |-> "error", text |-> error]>>
        /\ pc = "input" => ENABLED ReadQuery
        /\ (pc \in ChatLoopPoints /\ pc' \notin ChatLoopPoints
            /\ exitReason' # "interrupted") =>
              /\ pc = "input"
              /\ exitReason' = "quit"
              /\ SentinelLine(line')
              /\ completeCalls' = 0
              /\ toolCalls' = <<>>
              /\ lastArgs' = lastArgs
        /\ (pc = "input" /\ pc' = "list_tools") => ~SentinelLine(line')
      ]_vars

\* The error of a failed inference call was printed and the prompt is back.
C12_Witness ==
    /\ pc = "input"
    /\ exitReason = ""
    /\ printed = <<[kind |-> "error", text |-> "messages.create failed"]>>

(***************************************************************************)
(* C13: once main has created the MCPClient, cleanup (which closes the     *)
(* exit stack) runs exactly once on every way the session ends: quit,      *)
(* failure of connect_to_server or initialize, or interrupt; it has not    *)
(* run before the end.                                                     *)
(***************************************************************************)
C13_CleanupExactlyOnce ==
    /\ cleanups <= 1
    /\ pc # "exited" => cleanups = 0
    /\ (pc = "exited" /\ exitReason # "usage") =>
          /\ cleanups = 1
          /\ exit_stack = <<>>

\* The session was interrupted with both contexts entered and has ended.
C13_Witness ==
    /\ pc = "exited"
    /\ exitReason = "interrupted"
    /\ cleanups = 1
    /\ lastArgs # <<>>

(***************************************************************************)
(* C14: when a run is interrupted at a suspension point (during callTool   *)
(* or during a complete() call), the conversation at that moment holds no  *)
(* ToolUse id without a matching ToolResult.                               *)
(***************************************************************************)
C14_NoDanglingToolUseOnInterrupt ==
    (pc = "cleanup" /\ exitReason = "interrupted") =>
        \A id \in Range(ConversationToolUseIds(messages)) :
            Occurrences(ConversationToolResultIds(messages), id) = 1

(***************************************************************************)
(* C15: in every reachable conversation a ToolResult block appears only in *)
(* a User message that immediately follows an Assistant message holding a  *)
(* ToolUse block with the same id.                                         *)
(***************************************************************************)
C15_ToolResultFollowsItsToolUse ==
    \A i \in 1..Len(messages) :
        \A j \in 1..Len(BlocksOfMessage(messages[i])) :
            LET b == BlocksOfMessage(messages[i])[j]
            IN  b.type = "tool_result" =>
                  /\ messages[i].role = "user"
                  /\ i > 1
                  /\ messages[i - 1].role = "assistant"
                  /\ b.tool_use_id \in
                        Range(ToolUseIdsOf(BlocksOfMessage(messages[i - 1])))

\* A conversation that holds a ToolResult.
C15_Witness ==
    /\ pc = "complete2"
    /\ Len(messages) = 3
    /\ ConversationToolResultIds(messages) # <<>>

(***************************************************************************)
(* C16: a completion result with no content blocks (first or later in a    *)
(* run) is not a fatal error: the run ends in Done with an Assistant       *)
(* message of empty text appended, and no error reaches the caller.        *)
(***************************************************************************)
\* The step obtains a completion result without content blocks.
EmptyResultInStep ==
    /\ Len(completions') = Len(completions) + 1
    /\ completions'[Len(completions')] = <<>>

C16_EmptyResultEndsRun ==
    [][ EmptyResultInStep =>
            /\ pc' = "returned"
            /\ error' = ""
            /\ messages' =
                  Append(messages,
                         [role |-> "assistant",
                          content |-> [kind |-> "str", str |-> <<>>]])
      ]_vars

\* A run ended on an empty second completion result.
C16_Witness ==
    /\ RunDone
    /\ Len(completions) = 2
    /\ completions[2] = <<>>
    /\ error = ""

(***************************************************************************)
(* C18 as stated: when a completion result holds a ToolUse block, its full *)
(* content is appended as one Assistant message before the first callTool  *)
(* of the turn is issued, so during the tool execution the conversation    *)
(* ends with that Assistant message.                                       *)
(***************************************************************************)
AssistantMessageOf(content) ==
    [role |-> "assistant", content |-> [kind |-> "blocks", blocks |-> content]]

C18_AssistantAppendedBeforeToolCall ==
    pc = "call_tool" =>
        messages[Len(messages)] = AssistantMessageOf(completions[1])

(***************************************************************************)
(* C18 amended: when a completion result holds a ToolUse block, its full   *)
(* content is appended as one Assistant message only after the callTool of *)
(* that turn has returned or raised, directly before the User message with *)
(* the ToolResult: during the tool execution the conversation holds the    *)
(* User query alone, and at the next complete() call it ends with that     *)
(* Assistant message followed by the ToolResult message.                   *)
(***************************************************************************)
C18_AssistantAppendedAfterToolCall ==
    /\ pc = "call_tool" =>
          /\ Len(messages) = 1
          /\ messages[1].role = "user"
          /\ messages[1].content = [kind |-> "str", str |-> query]
    /\ pc = "complete2" =>
          /\ Len(messages) = 3
          /\ messages[2] = AssistantMessageOf(completions[1])
          /\ messages[3].role = "user"
          /\ ConversationToolResultIds(<<messages[3]>>) # <<>>

\* A tool is executing for a result that interleaves text and tool use.
C18_Witness ==
    /\ pc = "call_tool"
    /\ Len(completions[1]) >= 2
    /\ TextsOf(completions[1]) # <<>>

(***************************************************************************)
(* C19: when a run ends in Done, the final Assistant message holds all     *)
(* Text blocks of the last completion result, verbatim and in order (not   *)
(* only the first block, and not the empty string when the result has      *)
(* text).  Separators between the blocks are left open.                    *)
(***************************************************************************)
WithoutNewlines(str) == SelectSeq(str, LAMBDA t : t # "\n")

C19_FinalMessageHasAllText ==
    RunDone =>
        LET m == messages[Len(messages)]
            last == completions[Len(completions)]
        IN  /\ m.role = "assistant"
            /\ m.content.kind = "str"
            /\ WithoutNewlines(m.content.str) = Concatenation(TextsOf(last))

(***************************************************************************)
(* C20: every call of process_query terminates once its collaborator calls *)
(* return, after at most two complete() calls and at most one callTool     *)
(* call, whatever the completion results hold: every step of a run moves   *)
(* it strictly closer to its end, and a run that waits can always go on.   *)
(***************************************************************************)
\* The number of collaborator calls a run can still make.
StepsLeft(p) ==
    CASE p = "list_tools" -> 4
      [] p = "complete1" -> 3
      [] p = "call_tool" -> 2
      [] p = "complete2" -> 1
      [] OTHER -> 0

RoleAt(i) == IF i % 2 = 1 THEN "user" ELSE "assistant"

Alternates(msgs) == \A i \in 1..Len(msgs) : msgs[i].role = RoleAt(i)

C21_RolesAlternate ==
    /\ Alternates(messages)
    /\ pc \in RunPoints => messages # <<>>
    /\ Alternates(lastArgs)
    /\ completeCalls > 0 =>
          /\ lastArgs # <<>>
          /\ lastArgs[Len(lastArgs)].role = "user"
    /\ RunDone =>
          /\ messages # <<>>
          /\ messages[Len(messages)].role = "assistant"

\* A run with a tool call has returned: the second messages.create call
\* received three messages and the list ends with the fourth.
C21_Witness ==
    /\ RunDone
    /\ completeCalls = 2
    /\ Len(lastArgs) = 3
    /\ Len(messages) = 4

(***************************************************************************)
(* Sample/gemini-mcp-agent.py: the chat loop of main.  The ReAct graph is  *)
(* a nondeterministic collaborator: it answers the message list it is      *)
(* given with an AI message, or with an AI message asking for a tool, the  *)
(* tool's message and a closing AI message.                                *)
(***************************************************************************)
\* The lines the user can type at "You: ".
AgentLines ==
    { <<"flats in Paris">>,
      <<"cheaper ones">>,
      <<" ", "exit">>,
      <<"exit">>,
      <<"EXIT">>,
      <<"Exit">> }

ExitLine == <<"exit">>

\* user_input.lower() == "exit"
IsExit(l) == Lower(l) = ExitLine

\* ("user", user_input)
UserTuple(l) == [role |-> "user", content |-> l]

\* The graph turns a ("user", text) tuple into a HumanMessage and keeps
\* message objects as they are.
Coerce(m) == IF m.role = "user" THEN [m EXCEPT !.role = "human"] ELSE m

CoerceAll(msgs) == [i \in 1..Len(msgs) |-> Coerce(msgs[i])]

\* What the graph can add to the messages of one turn.
GraphReplies ==
    { << [role |-> "ai", content |-> <<"Here is what I found.">>] >>,
      << [role |-> "ai", content |-> <<"[tool_calls: airbnb_search]">>],
         [role |-> "tool", content |-> <<"3 listings">>],
         [role |-> "ai", content |-> <<"I found 3 listings.">>] >> }

\* Init of SpecAgent: the client context is entered, the graph is built,
\* inputs = {"messages": []} and main blocks in input(); `state` is not
\* bound yet.
InitAgent ==
    /\ ClientOff
    /\ SocketOff
    /\ WeatherOff
    /\ agentPc = "input"
    /\ inputs = <<>>
    /\ state = <<>>
    /\ agentPrinted = <<>>

\* The programs other than the Gemini agent.
exceptAgent == <<clientVars, socketVars, weatherVars>>

\* user_input = input("You: ") is not "exit": the user message is appended
\* to inputs["messages"] and the graph is called with inputs.
AgentReadInput ==
    /\ agentPc = "input"
    /\ Len(inputs) < MaxTurns
    /\ \E l \in AgentLines :
        /\ ~IsExit(l)
        /\ inputs' = Append(inputs, UserTuple(l))
    /\ agentPc' = "astream"
    /\ agentPrinted' = <<>>
    /\ UNCHANGED <<state, exceptAgent>>

\* user_input.lower() == "exit": break.
AgentReadExit ==
    /\ agentPc = "input"
    /\ \E l \in AgentLines : IsExit(l)
    /\ agentPc' = "exited"
    /\ UNCHANGED <<inputs, state, agentPrinted, exceptAgent>>

\* input() raises (stdin closed, interrupt): nothing in main catches it.
AgentInputFails ==
    /\ agentPc = "input"
    /\ agentPc' = "exited"
    /\ UNCHANGED <<inputs, state, agentPrinted, exceptAgent>>

\* async for state in graph.astream(inputs, stream_mode="values"): the
\* stream yields the state after the input and after each node, the last
\* message of each is printed, and `state` stays bound to the final state.
\* Then line 61 evaluates inputs["messages"] == state["messages"], a
\* comparison whose value is dropped: inputs is not assigned.
AgentAstream ==
    /\ agentPc = "astream"
    /\ \E reply \in GraphReplies :
        /\ state' = CoerceAll(inputs) \o reply
        /\ agentPrinted' = <<Coerce(inputs[Len(inputs)])>> \o reply
    /\ agentPc' = "input"
    /\ UNCHANGED <<inputs, exceptAgent>>

\* The graph raises during the stream (model or tool server failure):
\* nothing in main catches it.
AgentAstreamFails ==
    /\ agentPc = "astream"
    /\ agentPc' = "exited"
    /\ UNCHANGED <<inputs, state, agentPrinted, exceptAgent>>

NextAgent ==
    \/ AgentReadInput
    \/ AgentReadExit
    \/ AgentInputFails
    \/ AgentAstream
    \/ AgentAstreamFails

SpecAgent == InitAgent /\ [][NextAgent]_vars

\* The AI and tool messages of a message list, in order.
AgentMessagesOf(msgs) ==
    SelectSeq(msgs, LAMBDA m : m.role \in {"ai", "tool"})

(***************************************************************************)
(* C22: in the Gemini agent's chat loop the history is updated with the    *)
(* agent's response after each turn: the message list passed to the graph  *)
(* for a later user input contains the AI and tool messages of the earlier *)
(* turns (those of the state the previous turn ended with), not only the   *)
(* user inputs.                                                            *)
(***************************************************************************)
C22_HistoryHasAgentMessages ==
    agentPc = "astream" =>
        AgentMessagesOf(inputs) = AgentMessagesOf(state)

(***************************************************************************)
(* Sample/simple_mcp_sample.py: mcp_client and the handle_client thread    *)
(* the server starts for its connection, joined by the two directions of   *)
(* a TCP stream.  A byte is one token of the string it encodes.            *)
(***************************************************************************)
\* The lines the user can type at "Enter MCP command (or 'quit' to exit): ".
SocketLines ==
    { <<>>,
      <<" ">>,
      <<"ping">>,
      <<"hello">>,
      <<"hello", " ", "Ann">>,
      <<"echo">>,
      <<"echo", " ", "hi", " ", "there">>,
      <<"time">>,
      <<"uptime">>,
      <<"bye">>,
      <<"list">>,
      <<" ", "quit">>,
      <<"quit">>,
      <<"QUIT">> }

\* str.encode('utf-8') and bytes.decode('utf-8')
Encode(str) == [i \in 1..Len(str) |-> [byte |-> str[i]]]

Decode(bytes) == [i \in 1..Len(bytes) |-> bytes[i].byte]

\* socket.send(bytes) on a stream: the bytes follow those in flight; an
\* empty bytes object adds nothing.
SendBytes(chan, bytes) == chan \o bytes

\* socket.recv(n) with bytes in flight: at most n of them, from the front.
RecvBytes(chan, n) == SubSeq(chan, 1, IF Len(chan) < n THEN Len(chan) ELSE n)

AfterRecv(chan, n) ==
    SubSeq(chan, (IF Len(chan) < n THEN Len(chan) ELSE n) + 1, Len(chan))

IsSpace(t) == t \in {" ", NL}

\* str.strip() of a string that may hold newlines.
RECURSIVE StripSpaceLeft(_)
StripSpaceLeft(str) ==
    IF str # <<>> /\ IsSpace(str[1]) THEN StripSpaceLeft(Tail(str)) ELSE str

RECURSIVE StripSpaceRight(_)
StripSpaceRight(str) ==
    IF str # <<>> /\ IsSpace(str[Len(str)])
    THEN StripSpaceRight(SubSeq(str, 1, Len(str) - 1))
    ELSE str

StripSpace(str) == StripSpaceRight(StripSpaceLeft(str))

\* message.split(): the words between whitespace.
Split(str) == SelectSeq(str, LAMBDA t : ~IsSpace(t))

\* " ".join(parts)
RECURSIVE JoinSpace(_)
JoinSpace(parts) ==
    IF parts = <<>> THEN <<>>
    ELSE IF Len(parts) = 1 THEN <<parts[1]>>
    ELSE <<parts[1], " ">> \o JoinSpace(Tail(parts))

\* str.upper() of a word.
UpperToken(t) ==
    CASE t = "ping" -> "PING"
      [] t = "hello" -> "HELLO"
      [] t = "echo" -> "ECHO"
      [] t = "time" -> "TIME"
      [] t = "uptime" -> "UPTIME"
      [] t = "bye" -> "BYE"
      [] t = "list" -> "LIST"
      [] t = "quit" -> "QUIT"
      [] OTHER -> t

\* process_message(message); the clock readings are left open.
process_message(message) ==
    LET parts == Split(message)
    IN  IF parts = <<>> THEN <<"ERROR: No command received.", NL>>
        ELSE LET command == UpperToken(parts[1])
             IN  CASE command = "HELLO" ->
                        IF Len(parts) > 1
                        THEN <<"OK Hello ">> \o JoinSpace(Tail(parts))
                             \o <<", welcome to the server!", NL>>
                        ELSE <<"OK Hello, welcome to the server!", NL>>
                   [] command = "PING" -> <<"OK PONG", NL>>
                   [] command = "TIME" ->
                        <<"OK The current time is ", "%Y-%m-%d %H:%M:%S", NL>>
                   [] command = "BYE" -> <<"OK Goodbye!", NL>>
                   [] command = "ECHO" ->
                        IF Len(parts) > 1
                        THEN <<"OK ">> \o JoinSpace(Tail(parts)) \o <<NL>>
                        ELSE <<"ERROR: No text to echo.", NL>>
                   [] command = "UPTIME" ->
                        <<"OK Server uptime: ", "days, hours, minutes, seconds",
                          NL>>
                   [] OTHER -> <<"ERROR: Unknown command.", NL>>

\* Init of SpecSocket: the server listens and blocks in accept; mcp_client
\* has created its socket and is about to connect.
InitSocket ==
    /\ ClientOff
    /\ AgentOff
    /\ WeatherOff
    /\ clientPc = "connect"
    /\ handlerPc = "accept"
    /\ c2s = <<>>
    /\ s2c = <<>>
    /\ shown = <<>>
    /\ linesSent = 0
    /\ responsesSent = 0

\* The programs other than the socket demo.
exceptSocket == <<clientVars, agentVars, weatherVars>>

\* client_socket.connect succeeds; the server accepts and starts the
\* handle_client thread, which blocks in recv; the client blocks in input().
ClientConnect ==
    /\ clientPc = "connect"
    /\ clientPc' = "input"
    /\ handlerPc' = "recv"
    /\ UNCHANGED <<c2s, s2c, shown, linesSent, responsesSent, exceptSocket>>

\* connect raises (no server): except prints, finally closes the socket.
ClientConnectFails ==
    /\ clientPc = "connect"
    /\ clientPc' = "closed"
    /\ UNCHANGED <<handlerPc, c2s, s2c, shown, linesSent, responsesSent,
                   exceptSocket>>

\* message = input(...) is not 'quit': client_socket.send(message.encode())
\* and the client blocks in recv.  Bytes sent after the handler closed its
\* socket are dropped.
ClientEnter ==
    /\ clientPc = "input"
    /\ linesSent < MaxLines
    /\ \E message \in SocketLines :
        /\ ~IsQuit(message)
        /\ c2s' = IF handlerPc = "closed" THEN c2s
                  ELSE SendBytes(c2s, Encode(message))
    /\ clientPc' = "recv"
    /\ linesSent' = linesSent + 1
    /\ UNCHANGED <<handlerPc, s2c, shown, responsesSent, exceptSocket>>

\* message.lower() == 'quit': break; finally closes the socket.
ClientQuit ==
    /\ clientPc = "input"
    /\ \E message \in SocketLines : IsQuit(message)
    /\ clientPc' = "closed"
    /\ UNCHANGED <<handlerPc, c2s, s2c, shown, linesSent, responsesSent,
                   exceptSocket>>

\* data = client_socket.recv(1024) returns bytes: the response is decoded,
\* stripped and printed, and the client asks for the next line.
ClientRecv ==
    /\ clientPc = "recv"
    /\ s2c # <<>>
    /\ shown' = StripSpace(Decode(RecvBytes(s2c, ClientRecvSize)))
    /\ s2c' = AfterRecv(s2c, ClientRecvSize)
    /\ clientPc' = "input"
    /\ UNCHANGED <<handlerPc, c2s, linesSent, responsesSent, exceptSocket>>

\* recv returns b"" (or raises) because the handler closed its socket:
\* "Server disconnected.", break; finally closes the socket.
ClientRecvDisconnect ==
    /\ clientPc = "recv"
    /\ s2c = <<>>
    /\ handlerPc = "closed"
    /\ clientPc' = "closed"
    /\ UNCHANGED <<handlerPc, c2s, s2c, shown, linesSent, responsesSent,
                   exceptSocket>>

\* KeyboardInterrupt while the client blocks in input() or in recv: it is
\* no Exception; finally closes the socket.
ClientInterrupt ==
    /\ clientPc \in {"input", "recv"}
    /\ clientPc' = "closed"
    /\ UNCHANGED <<handlerPc, c2s, s2c, shown, linesSent, responsesSent,
                   exceptSocket>>

\* data = client_socket.recv(1024) returns bytes: the message is decoded and
\* stripped, process_message makes the response and it is sent; the handler
\* blocks in recv again.  A response sent after the client closed its socket
\* is dropped.
HandlerServe ==
    /\ handlerPc = "recv"
    /\ c2s # <<>>
    /\ LET data == RecvBytes(c2s, HandlerRecvSize)
           message == StripSpace(Decode(data))
       IN  s2c' = IF clientPc = "closed" THEN s2c
                  ELSE SendBytes(s2c, Encode(process_message(message)))
    /\ c2s' = AfterRecv(c2s, HandlerRecvSize)
    /\ responsesSent' = responsesSent + 1
    /\ UNCHANGED <<clientPc, handlerPc, shown, linesSent, exceptSocket>>

\* recv returns b"" because the client closed its socket: "Client
\* disconnected.", break; finally closes the socket.
HandlerEof ==
    /\ handlerPc = "recv"
    /\ c2s = <<>>
    /\ clientPc = "closed"
    /\ handlerPc' = "closed"
    /\ UNCHANGED <<clientPc, c2s, s2c, shown, linesSent, responsesSent,
                   exceptSocket>>

\* recv raises (connection reset): except prints, finally closes the socket.
HandlerFails ==
    /\ handlerPc = "recv"
    /\ handlerPc' = "closed"
    /\ UNCHANGED <<clientPc, c2s, s2c, shown, linesSent, responsesSent,
                   exceptSocket>>

NextSocket ==
    \/ ClientConnect
    \/ ClientConnectFails
    \/ ClientEnter
    \/ ClientQuit
    \/ ClientRecv
    \/ ClientRecvDisconnect
    \/ ClientInterrupt
    \/ HandlerServe
    \/ HandlerEof
    \/ HandlerFails

SpecSocket == InitSocket /\ [][NextSocket]_vars

(***************************************************************************)
(* C23: in the socket demo client and handler run in lockstep.  For every  *)
(* line other than 'quit' the user enters (the empty line included) the    *)
(* handler receives a message and sends exactly one response, so the       *)
(* client's blocking receive always returns: while the client waits in     *)
(* recv, a response is in flight, or the handler has the message still to  *)
(* answer, or the handler has closed the connection; and whenever the      *)
(* client is back at its prompt with the handler alive, as many responses  *)
(* were sent as lines.                                                     *)
(***************************************************************************)
C23_Lockstep ==
    /\ clientPc = "recv" =>
          \/ s2c # <<>>
          \/ c2s # <<>>
          \/ handlerPc = "closed"
    /\ (clientPc = "input" /\ handlerPc = "recv") =>
          responsesSent = linesSent

(***************************************************************************)
(* Client-Server/mcp-servers/weather.py: the tool get_forecast and         *)
(* make_nws_request.  The NWS API is a nondeterministic collaborator: a    *)
(* request fails in one of the ways make_nws_request handles, or returns a *)
(* JSON value.  A JSON value is a record whose field `shape` tells what it *)
(* is; coordinates are whole degrees.                                      *)
(***************************************************************************)
\* A key that is missing from a JSON object, and the JSON value null.
Absent == [shape |-> "absent"]

JsonNull == [shape |-> "null"]

Latitudes == {-91, -90, 42, 91}

Longitudes == {-181, -71, 180}

\* -90 <= latitude <= 90 and -180 <= longitude <= 180
ValidCoordinates(lat, lon) ==
    /\ -MaxLatitude <= lat
    /\ lat <= MaxLatitude
    /\ -MaxLongitude <= lon
    /\ lon <= MaxLongitude

\* f"{latitude:.4f}"
Format4(x) == <<ToString(x), ".", "0000">>

NWS_API_BASE == <<"https://api.weather.gov">>

\* f"{NWS_API_BASE}/points/{lat_str},{lon_str}"
PointsUrl(lat, lon) ==
    NWS_API_BASE \o <<"/points/">> \o Format4(lat) \o <<",">> \o Format4(lon)

\* f"({lat_str}, {lon_str})"
LocationOf(lat, lon) ==
    <<"(">> \o Format4(lat) \o <<", ">> \o Format4(lon) \o <<")">>

\* The forecast URL the points endpoint names.
GridForecastUrl == <<"https://api.weather.gov/gridpoints/BOX/71,90/forecast">>

\* The ways a request fails inside make_nws_request: raise_for_status,
\* a transport error, an unexpected content type, response.json(), any
\* other exception.
RequestFailures ==
    { "HTTPStatusError", "RequestError", "unexpected content type",
      "JSONDecodeError", "Exception" }

\* The "properties" object of a points answer.
PointsProperties ==
    { [shape |-> "dict", forecast |-> f, relativeLocation |-> r] :
        f \in {<<>>, GridForecastUrl},
        r \in {"absent", "null", "Boston, MA"} }

\* The JSON values the points endpoint can answer with.
PointsBodies ==
    { [shape |-> "list"] } \cup
    { [shape |-> "dict", properties |-> p, status |-> st, detail |-> d] :
        p \in {Absent, JsonNull} \cup PointsProperties,
        st \in {0, 404},
        d \in {<<>>, <<"is outside the NWS operational area">>} }

\* The "periods" value of a forecast answer: missing or no list, or a list
\* of periods, each an object with a name or the value null.
PeriodsValues ==
    { Absent,
      [shape |-> "list", items |-> <<>>],
      [shape |-> "list", items |-> <<"Tonight">>],
      [shape |-> "list", items |-> <<"Tonight", "null">>],
      [shape |-> "list",
       items |-> <<"Mon", "Mon Night", "Tue", "Tue Night", "Wed",
                   "Wed Night", "Thu", "Thu Night">>] }

\* The JSON values the forecast endpoint can answer with.
ForecastBodies ==
    { [shape |-> "list"] } \cup
    { [shape |-> "dict", properties |-> p] :
        p \in {Absent, JsonNull} \cup
              { [shape |-> "dict", periods |-> per] : per \in PeriodsValues } }

\* What httpx and response.json() give for one request.
Outcomes(bodies) ==
    { [kind |-> k, body |-> None] : k \in RequestFailures } \cup
    { [kind |-> "ok", body |-> b] : b \in bodies }

\* make_nws_request(url): the decoded data, None on every failure.
make_nws_request(outcome) ==
    IF outcome.kind = "ok" THEN outcome.body ELSE None

\* return f"Error: ..."
ErrorString(rest) == [kind |-> "returned", text |-> <<"Error: ">> \o rest]

Returned(text) == [kind |-> "returned", text |-> text]

\* An exception leaves get_forecast.
Raised(exc) == [kind |-> "raised", text |-> <<exc>>]

\* "\n---\n".join(forecasts)
RECURSIVE JoinRule(_)
JoinRule(forecasts) ==
    IF forecasts = <<>> THEN <<>>
    ELSE IF Len(forecasts) = 1 THEN forecasts[1]
    ELSE forecasts[1] \o <<"\n---\n">> \o JoinRule(Tail(forecasts))

\* The f-string built for one period.
FormatPeriod(name) == <<"\n", name, ":", "\n  Temperature: ...">>

\* periods[:7]
FirstPeriods(items) ==
    SubSeq(items, 1, IF Len(items) < ShownPeriods THEN Len(items)
                     ELSE ShownPeriods)

\* Lines 139-156: what get_forecast does with the points data.  The result
\* with which the call ends, or kind "go on" when the forecast is requested.
AfterPoints(data, lat, lon) ==
    IF data = None
    THEN ErrorString(<<"Unable to get forecast grid point for location ">>
                     \o LocationOf(lat, lon))
    ELSE IF data.shape # "dict" THEN
         ErrorString(<<"Received unexpected data format for location ">>
                     \o LocationOf(lat, lon))
    ELSE IF data.properties.shape = "absent" THEN
         ErrorString(<<"Received unexpected data format for location ">>
                     \o LocationOf(lat, lon))
    ELSE IF data.properties.shape = "null" THEN
         \* properties.get("forecast") with properties None
         Raised("AttributeError")
    ELSE IF data.properties.forecast = <<>> THEN
         IF data.status = 404
            \/ data.detail = <<"is outside the NWS operational area">>
         THEN ErrorString(<<"Location ">> \o LocationOf(lat, lon)
                          \o <<" is outside the NWS forecast coverage area">>)
         ELSE ErrorString(<<"Could not determine the specific forecast URL ",
                            "for location ">> \o LocationOf(lat, lon))
    ELSE [kind |-> "go on", text |-> data.properties.forecast]

\* Lines 161-204: what get_forecast returns after the forecast request.
AfterForecast(data, properties, lat, lon) ==
    IF data = None
    THEN ErrorString(<<"Unable to fetch the detailed forecast from ">>
                     \o properties.forecast)
    ELSE IF data.shape # "dict" THEN
         ErrorString(<<"Received unexpected data format for the detailed ",
                       "forecast">>)
    ELSE IF data.properties.shape = "absent" THEN
         ErrorString(<<"Received unexpected data format for the detailed ",
                       "forecast">>)
    ELSE IF data.properties.shape = "null" THEN
         \* forecast_data.get("properties", {}).get("periods")
         Raised("AttributeError")
    ELSE IF data.properties.periods.shape # "list" THEN
         ErrorString(<<"Forecast data received for ">> \o LocationOf(lat, lon)
                     \o <<" is missing the forecast periods.">>)
    ELSE IF data.properties.periods.items = <<>> THEN
         Returned(<<"No forecast periods available for location ">>
                  \o LocationOf(lat, lon) \o <<" at this time.">>)
    ELSE IF properties.relativeLocation = "null" THEN
         \* properties.get("relativeLocation", {}).get("properties", {})
         Raised("AttributeError")
    ELSE LET location_str ==
                 IF properties.relativeLocation = "absent"
                 THEN <<"at ">> \o Format4(lat) \o <<", ">> \o Format4(lon)
                 ELSE <<"near ", properties.relativeLocation>>
             shown_periods == FirstPeriods(data.properties.periods.items)
         IN  IF \E i \in 1..Len(shown_periods) : shown_periods[i] = "null"
             THEN ErrorString(<<"Could not format the forecast data ",
                                "received for ">> \o location_str)
             ELSE Returned(<<"Weather forecast ">> \o location_str
                           \o <<":\n---\n">>
                           \o JoinRule([i \in 1..Len(shown_periods) |->
                                          FormatPeriod(shown_periods[i])]))

\* Init of SpecWeather: mcp.run serves the tool; no call is in progress.
InitWeather ==
    /\ ClientOff
    /\ AgentOff
    /\ SocketOff
    /\ wxPc = "idle"
    /\ latitude = 0
    /\ longitude = 0
    /\ requests = <<>>
    /\ points_data = None
    /\ result = [kind |-> "none", text |-> <<>>]

\* The programs other than the weather server.
exceptWeather == <<clientVars, agentVars, socketVars>>

\* One make_nws_request call: its URL and how the request ended ("pending"
\* while it is awaited).
Request(url, outcome) == [url |-> url, outcome |-> outcome]

\* The last request of the call has ended with `outcome`.
Ended(reqs, outcome) == [reqs EXCEPT ![Len(reqs)].outcome = outcome]

\* get_forecast is called with coordinates outside the ranges: it returns
\* at line 130.
GetForecastInvalid ==
    /\ wxPc \in {"idle", "done"}
    /\ \E lat \in Latitudes, lon \in Longitudes :
        /\ ~ValidCoordinates(lat, lon)
        /\ latitude' = lat
        /\ longitude' = lon
    /\ requests' = <<>>
    /\ points_data' = None
    /\ result' = ErrorString(<<"Invalid latitude or longitude values ",
                               "provided.">>)
    /\ wxPc' = "done"
    /\ UNCHANGED exceptWeather

\* get_forecast is called with coordinates inside the ranges: it awaits
\* make_nws_request(points_url).
GetForecastStart ==
    /\ wxPc \in {"idle", "done"}
    /\ \E lat \in Latitudes, lon \in Longitudes :
        /\ ValidCoordinates(lat, lon)
        /\ latitude' = lat
        /\ longitude' = lon
        /\ requests' = <<Request(PointsUrl(lat, lon), "pending")>>
    /\ points_data' = None
    /\ result' = [kind |-> "none", text |-> <<>>]
    /\ wxPc' = "points"
    /\ UNCHANGED exceptWeather

\* The points request has ended with `outcome`: lines 137-159.
PointsEnds(outcome) ==
    LET data == make_nws_request(outcome)
        next == AfterPoints(data, latitude, longitude)
    IN  /\ points_data' = data
        /\ IF next.kind = "go on"
           THEN /\ requests' = Append(Ended(requests, outcome.kind),
                                      Request(next.text, "pending"))
                /\ result' = result
                /\ wxPc' = "forecast"
           ELSE /\ requests' = Ended(requests, outcome.kind)
                /\ result' = next
                /\ wxPc' = "done"
        /\ UNCHANGED <<latitude, longitude, exceptWeather>>

\* The points request fails: make_nws_request returns None.
PointsRequestFails ==
    /\ wxPc = "points"
    /\ \E outcome \in Outcomes(PointsBodies) :
        /\ outcome.kind # "ok"
        /\ PointsEnds(outcome)

\* The points request returns decoded JSON.
PointsRequestReturns ==
    /\ wxPc = "points"
    /\ \E outcome \in Outcomes(PointsBodies) :
        /\ outcome.kind = "ok"
        /\ PointsEnds(outcome)

\* The forecast request has ended with `outcome`: lines 159-204.
ForecastEnds(outcome) ==
    /\ requests' = Ended(requests, outcome.kind)
    /\ result' = AfterForecast(make_nws_request(outcome),
                               points_data.properties, latitude, longitude)
    /\ wxPc' = "done"
    /\ UNCHANGED <<latitude, longitude, points_data, exceptWeather>>

\* The forecast request fails: make_nws_request returns None.
ForecastRequestFails ==
    /\ wxPc = "forecast"
    /\ \E outcome \in Outcomes(ForecastBodies) :
        /\ outcome.kind # "ok"
        /\ ForecastEnds(outcome)

\* The forecast request returns decoded JSON.
ForecastRequestReturns ==
    /\ wxPc = "forecast"
    /\ \E outcome \in Outcomes(ForecastBodies) :
        /\ outcome.kind = "ok"
        /\ ForecastEnds(outcome)

NextWeather ==
    \/ GetForecastInvalid
    \/ GetForecastStart
    \/ PointsRequestFails
    \/ PointsRequestReturns
    \/ ForecastRequestFails
    \/ ForecastRequestReturns

SpecWeather == InitWeather /\ [][NextWeather]_vars

\* The call ended by returning a string that starts with "Error: ".
IsErrorString(res) ==
    /\ res.kind = "returned"
    /\ res.text # <<>>
    /\ res.text[1] = "Error: "

RequestFailed(req) == req.outcome \in RequestFailures

\* The order and the guards of the requests of one call: no request for
\* coordinates out of range, which end in an error string; the points
\* request first; the forecast request only after a points request that
\* returned data naming a forecast URL, and for that URL; a failed request
\* is the last of the call, which ends with an error string.
GuardedRequestOrder ==
    /\ ~ValidCoordinates(latitude, longitude) =>
          /\ requests = <<>>
          /\ wxPc = "done"
          /\ IsErrorString(result)
    /\ Len(requests) <= 2
    /\ Len(requests) >= 1 =>
          requests[1].url = PointsUrl(latitude, longitude)
    /\ Len(requests) = 2 =>
          /\ requests[1].outcome = "ok"
          /\ points_data.shape = "dict"
          /\ points_data.properties.shape = "dict"
          /\ points_data.properties.forecast # <<>>
          /\ requests[2].url = points_data.properties.forecast
    /\ \A i \in 1..Len(requests) :
          RequestFailed(requests[i]) =>
              /\ i = Len(requests)
              /\ wxPc = "done"
              /\ IsErrorString(result)

(***************************************************************************)
(* C24: get_forecast issues its requests in a fixed guarded order and      *)
(* reports every failure as a returned "Error: ..." string: coordinates    *)
(* out of range return an error with no request made; the forecast request *)
(* is made only after a points request that returned data with a forecast  *)
(* URL; a failed request ends the call with an error string and no further *)
(* request; and every call ends by returning a string, never by raising.   *)
(***************************************************************************)
C24_FailuresAreErrorStrings ==
    /\ GuardedRequestOrder
    /\ wxPc = "done" => result.kind = "returned"

====
